---- MODULE Spec2Model ----
(***************************************************************************)
(* TextFileParser (AI_agent/AIpowered_file_parsing2.py): a parser object    *)
(* that loads a text file, derives statistics, a word-frequency table and   *)
(* pattern matches into one result record, and renders a report.            *)
(*                                                                          *)
(* Text is a sequence of one-character strings.  "BS" stands for the        *)
(* single character U+0008 (what the Python literal '\b' denotes in a       *)
(* string that is not raw).                                                 *)
(***************************************************************************)
EXTENDS Integers, Sequences, FiniteSets, TLC

VARIABLES
    file_content,      \* self.file_content
    analysis_results,  \* self.analysis_results
    now,               \* the clock datetime.now() reads, in ticks
    last,              \* the most recent call: its name, argument, return value
                       \* (or exception) and the report it wrote
    computed_from      \* history: for each computed key of analysis_results,
                       \* the content it was computed from

vars == <<file_content, analysis_results, now, last, computed_from>>

(***************************************************************************)
(* Bounds of the model.                                                     *)
(***************************************************************************)
\* timestamps run from 0 to MaxClock
MaxClock == 2
\* explicit top_n arguments are 0..MaxTopN (besides the default)
MaxTopN == 2
\* the generated contents have at most MaxLen characters
MaxLen == 5

(***************************************************************************)
(* Characters and character classes (ASCII; re.IGNORECASE folds case).      *)
(***************************************************************************)
Letters ==
    {"a", "b", "c", "d", "e", "f", "g", "h", "i", "j", "k", "l", "m",
     "n", "o", "p", "q", "r", "s", "t", "u", "v", "w", "x", "y", "z",
     "A", "B", "C", "D", "E", "F", "G", "H", "I", "J", "K", "L", "M",
     "N", "O", "P", "Q", "R", "S", "T", "U", "V", "W", "X", "Y", "Z"}

Digits == {"0", "1", "2", "3", "4", "5", "6", "7", "8", "9"}

\* \w
WordChars == Letters \cup Digits \cup {"_"}

\* what str.strip() removes
Whitespace == {" ", "\n", "\t", "\r", "\f"}

\* [.!?]
SentenceEnd == {".", "!", "?"}

\* [A-Za-z0-9._%+-]
LocalChars == Letters \cup Digits \cup {".", "_", "%", "+", "-"}

\* [A-Za-z0-9.-]
DomainChars == Letters \cup Digits \cup {".", "-"}

\* [A-Z|a-z]: the bar is a member of the class
TldChars == Letters \cup {"|"}

\* [-\w.]
HostChars == WordChars \cup {"-", "."}

\* [\da-fA-F]
HexChars == Digits \cup {"a", "b", "c", "d", "e", "f", "A", "B", "C", "D", "E", "F"}

\* [/\w .-]
PathChars == WordChars \cup {"/", " ", ".", "-"}

Min(S) == CHOOSE x \in S : \A y \in S : x <= y

Max(S) == CHOOSE x \in S : \A y \in S : y <= x

\* the lower-case letter of each upper-case letter
ToLower ==
    ("A" :> "a") @@ ("B" :> "b") @@ ("C" :> "c") @@ ("D" :> "d") @@ ("E" :> "e") @@
    ("F" :> "f") @@ ("G" :> "g") @@ ("H" :> "h") @@ ("I" :> "i") @@ ("J" :> "j") @@
    ("K" :> "k") @@ ("L" :> "l") @@ ("M" :> "m") @@ ("N" :> "n") @@ ("O" :> "o") @@
    ("P" :> "p") @@ ("Q" :> "q") @@ ("R" :> "r") @@ ("S" :> "s") @@ ("T" :> "t") @@
    ("U" :> "u") @@ ("V" :> "v") @@ ("W" :> "w") @@ ("X" :> "x") @@ ("Y" :> "y") @@
    ("Z" :> "z")

\* str.lower() on one character
lower_char(c) == IF c \in DOMAIN ToLower THEN ToLower[c] ELSE c

\* str.lower()
lower(s) == SubSeq([i \in 1..Len(s) |-> lower_char(s[i])], 1, Len(s))

\* the index just past the maximal run of cls characters that starts at i
RECURSIVE RunEnd(_, _, _)
RunEnd(s, i, cls) ==
    IF i > Len(s) \/ s[i] \notin cls THEN i ELSE RunEnd(s, i + 1, cls)

\* re.findall(r'[cls]+', s) from index i on: the maximal runs, left to right
RECURSIVE FindRuns(_, _, _)
FindRuns(s, i, cls) ==
    IF i > Len(s) THEN << >>
    ELSE IF s[i] \in cls
         THEN LET e == RunEnd(s, i, cls)
              IN  <<SubSeq(s, i, e - 1)>> \o FindRuns(s, e, cls)
         ELSE FindRuns(s, i + 1, cls)

\* re.split(r'[cls]+', s) from index i on: the pieces between the runs
RECURSIVE SplitRuns(_, _, _)
SplitRuns(s, i, cls) ==
    LET hits == {j \in i..Len(s) : s[j] \in cls}
    IN  IF hits = {} THEN <<SubSeq(s, i, Len(s))>>
        ELSE LET j == Min(hits)
             IN  <<SubSeq(s, i, j - 1)>> \o SplitRuns(s, RunEnd(s, j, cls), cls)

\* s.split('\n\n') from index i on
RECURSIVE SplitBlankLine(_, _)
SplitBlankLine(s, i) ==
    LET hits == {j \in i..(Len(s) - 1) : s[j] = "\n" /\ s[j + 1] = "\n"}
    IN  IF hits = {} THEN <<SubSeq(s, i, Len(s))>>
        ELSE LET j == Min(hits)
             IN  <<SubSeq(s, i, j - 1)>> \o SplitBlankLine(s, j + 2)

\* bool(p.strip())
NonBlank(p) == \E i \in 1..Len(p) : p[i] \notin Whitespace

\* [x for x in seq if x.strip()]
RECURSIVE KeepNonBlank(_)
KeepNonBlank(seq) ==
    IF seq = << >> THEN << >>
    ELSE IF NonBlank(Head(seq))
         THEN <<Head(seq)>> \o KeepNonBlank(Tail(seq))
         ELSE KeepNonBlank(Tail(seq))

\* re.findall(r'\w+', content.lower())
words(content) == FindRuns(lower(content), 1, WordChars)

\* re.split(r'[.!?]+', content)
sentences(content) == SplitRuns(content, 1, SentenceEnd)

\* [p for p in content.split('\n\n') if p.strip()]
paragraphs(content) == KeepNonBlank(SplitBlankLine(content, 1))

\* sum(len(word) for word in ws)
RECURSIVE SumLen(_)
SumLen(ws) == IF ws = << >> THEN 0 ELSE Len(Head(ws)) + SumLen(Tail(ws))

\* a / b of two ints (true division), kept as the exact fraction
TrueDiv(a, b) == [num |-> a, den |-> b]

\* the int 0 of the else branches
Zero == [num |-> 0, den |-> 1]

(***************************************************************************)
(* collections.Counter and Counter.most_common                              *)
(***************************************************************************)
\* the number of occurrences of w in ws
Occurrences(ws, w) == Cardinality({i \in 1..Len(ws) : ws[i] = w})

\* the keys of Counter(ws), in insertion order (order of first occurrence)
RECURSIVE CounterKeys(_, _)
CounterKeys(ws, i) ==
    IF i > Len(ws) THEN << >>
    ELSE IF \E j \in 1..(i - 1) : ws[j] = ws[i]
         THEN CounterKeys(ws, i + 1)
         ELSE <<ws[i]>> \o CounterKeys(ws, i + 1)

\* Counter(ws).items(), in insertion order
Counter(ws) ==
    LET keys == CounterKeys(ws, 1)
    IN  [k \in 1..Len(keys) |-> <<keys[k], Occurrences(ws, keys[k])>>]

\* a sort that puts an item in front of the items of equal count
InsertByCountUnstable(sorted, item) ==
    LET before == {k \in 1..Len(sorted) : sorted[k][2] > item[2]}
        n == IF before = {} THEN 0 ELSE Max(before)
    IN  SubSeq(sorted, 1, n) \o <<item>> \o SubSeq(sorted, n + 1, Len(sorted))

\* sorted(items, key=count, reverse=True): a stable sort, so an item goes
\* behind every item already placed whose count is at least its own
InsertByCount(sorted, item) ==
    LET before == {k \in 1..Len(sorted) : sorted[k][2] >= item[2]}
        n == IF before = {} THEN 0 ELSE Max(before)
    IN  SubSeq(sorted, 1, n) \o <<item>> \o SubSeq(sorted, n + 1, Len(sorted))

RECURSIVE SortByCount(_, _)
SortByCount(items, k) ==
    IF k = 0 THEN << >>
    ELSE InsertByCount(SortByCount(items, k - 1), items[k])

\* Counter.most_common(n) = heapq.nlargest(n, items, key=count), which is
\* sorted(items, key=count, reverse=True)[:n]
most_common(items, n) ==
    LET sorted == SortByCount(items, Len(items))
    IN  SubSeq(sorted, 1, IF n < Len(sorted) THEN n ELSE Len(sorted))

(***************************************************************************)
(* The patterns, as the strings the code passes to re.findall, and what     *)
(* re.findall(pattern, content, re.IGNORECASE) returns for each.            *)
(***************************************************************************)
\* r'\b[A-Za-z0-9._%+-]+@[A-Za-z0-9.-]+\.[A-Z|a-z]{2,}\b'
email_pattern ==
    <<"\\", "b", "[", "A", "-", "Z", "a", "-", "z", "0", "-", "9", ".", "_", "%",
      "+", "-", "]", "+", "@", "[", "A", "-", "Z", "a", "-", "z", "0", "-", "9",
      ".", "-", "]", "+", "\\", ".", "[", "A", "-", "Z", "|", "a", "-", "z", "]",
      "{", "2", ",", "}", "\\", "b">>

\* r'https?://(?:[-\w.]|(?:%[\da-fA-F]{2}))+[/\w .-]*/?'
url_pattern ==
    <<"h", "t", "t", "p", "s", "?", ":", "/", "/", "(", "?", ":", "[", "-", "\\",
      "w", ".", "]", "|", "(", "?", ":", "%", "[", "\\", "d", "a", "-", "f", "A",
      "-", "F", "]", "{", "2", "}", ")", ")", "+", "[", "/", "\\", "w", " ", ".",
      "-", "]", "*", "/", "?">>

\* '@[A-Za-z0-9.-]+\.[A-Z|a-z]{2,}\b', not a raw string: its last character
\* is U+0008, where email_pattern ends in a backslash and a "b"
EmailSuffix ==
    <<"@", "[", "A", "-", "Z", "a", "-", "z", "0", "-", "9", ".", "-", "]", "+",
      "\\", ".", "[", "A", "-", "Z", "|", "a", "-", "z", "]", "{", "2", ",", "}",
      "BS">>

\* 'http'
HttpWord == <<"h", "t", "t", "p">>

\* a pattern re.compile rejects
bad_pattern == <<"(">>

\* the patterns find_pattern is called with directly (extract_emails and
\* extract_urls pass the other two)
Patterns == {EmailSuffix, bad_pattern}

\* re.compile(pattern) raises re.error
Invalid(pattern) == pattern = bad_pattern

\* \b at index p: exactly one of s[p-1], s[p] is a word character
IsBoundary(s, p) ==
    (p > 1 /\ s[p - 1] \in WordChars) # (p <= Len(s) /\ s[p] \in WordChars)

\* [A-Za-z0-9.-]+\.[A-Z|a-z]{2,} from index d on, then the closing anchor:
\* \b (anchor "boundary") or the character U+0008 (anchor "BS").  Both
\* repetitions are greedy: the last dot that leads to a match is taken, then
\* the longest ending.  The index just past the match, 0 if there is none.
DomainEnd(s, d, anchor) ==
    LET stop == RunEnd(s, d, DomainChars)
        Closes(e) == IF anchor = "boundary" THEN IsBoundary(s, e)
                     ELSE e <= Len(s) /\ s[e] = "BS"
        Ends(q) == {e \in (q + 3)..RunEnd(s, q + 1, TldChars) : Closes(e)}
        dots == {q \in (d + 1)..(stop - 1) : s[q] = "." /\ Ends(q) # {}}
    IN  IF dots = {} THEN 0
        ELSE LET e == Max(Ends(Max(dots)))
             IN  IF anchor = "boundary" THEN e ELSE e + 1

\* email_pattern matched at index i: the index just past the match, 0 if none
EmailEnd(s, i) ==
    IF ~(IsBoundary(s, i) /\ s[i] \in LocalChars) THEN 0
    ELSE LET a == RunEnd(s, i, LocalChars)
         IN  IF a <= Len(s) /\ s[a] = "@" THEN DomainEnd(s, a + 1, "boundary")
             ELSE 0

\* EmailSuffix matched at index i
SuffixEnd(s, i) == IF s[i] = "@" THEN DomainEnd(s, i + 1, "BS") ELSE 0

\* (?:[-\w.]|(?:%[\da-fA-F]{2}))* from index j on: the index just past it
RECURSIVE HostEnd(_, _)
HostEnd(s, j) ==
    IF j > Len(s) THEN j
    ELSE IF s[j] \in HostChars THEN HostEnd(s, j + 1)
    ELSE IF /\ s[j] = "%"
            /\ j + 2 <= Len(s)
            /\ s[j + 1] \in HexChars
            /\ s[j + 2] \in HexChars
         THEN HostEnd(s, j + 3)
         ELSE j

\* s continues at index i with the text lit, case folded
RECURSIVE LooksAtFrom(_, _, _, _)
LooksAtFrom(s, i, lit, k) ==
    \/ k > Len(lit)
    \/ /\ i + k - 1 <= Len(s)
       /\ lower_char(s[i + k - 1]) = lit[k]
       /\ LooksAtFrom(s, i, lit, k + 1)

LooksAt(s, i, lit) == LooksAtFrom(s, i, lit, 1)

\* url_pattern matched at index i: the index just past the match, 0 if none
UrlEnd(s, i) ==
    IF ~LooksAt(s, i, HttpWord) THEN 0
    ELSE LET h == IF LooksAt(s, i + 4, <<"s", ":", "/", "/">>) THEN i + 8
                  ELSE IF LooksAt(s, i + 4, <<":", "/", "/">>) THEN i + 7
                  ELSE 0
             e == IF h = 0 THEN 0 ELSE HostEnd(s, h)
         IN  IF e = h THEN 0 ELSE RunEnd(s, e, PathChars)

\* one match attempt of a valid pattern at index i
MatchEnd(pattern, s, i) ==
    CASE pattern = email_pattern -> EmailEnd(s, i)
      [] pattern = url_pattern -> UrlEnd(s, i)
      [] pattern = EmailSuffix -> SuffixEnd(s, i)

\* re.findall(pattern, s, re.IGNORECASE) from index i on: the leftmost match,
\* then the search goes on behind it
RECURSIVE FindAll(_, _, _)
FindAll(pattern, s, i) ==
    IF i > Len(s) THEN << >>
    ELSE LET e == MatchEnd(pattern, s, i)
         IN  IF e = 0 THEN FindAll(pattern, s, i + 1)
             ELSE <<SubSeq(s, i, e - 1)>> \o FindAll(pattern, s, e)

(***************************************************************************)
(* The files the parser is pointed at.  A path is the sequence of its       *)
(* components.                                                              *)
(***************************************************************************)
\* "Hello world. Hello again!\n\nSecond paragraph."
Scenario ==
    <<"H", "e", "l", "l", "o", " ", "w", "o", "r", "l", "d", ".", " ", "H", "e",
      "l", "l", "o", " ", "a", "g", "a", "i", "n", "!", "\n", "\n", "S", "e", "c",
      "o", "n", "d", " ", "p", "a", "r", "a", "g", "r", "a", "p", "h", ".">>

\* "Hi hi."
Note == <<"H", "i", " ", "h", "i", ".">>

\* "a@b.co http://x.y"
Contacts ==
    <<"a", "@", "b", ".", "c", "o", " ", "h", "t", "t", "p", ":", "/", "/", "x",
      ".", "y">>

\* "..."
Dots == <<".", ".", ".">>

\* the files that exist and decode as UTF-8, with their text
TextFiles ==
    (<<"docs", "note.txt">> :> Note) @@
    (<<"mail", "contacts.txt">> :> Contacts) @@
    (<<"dots.txt">> :> Dots) @@
    (<<"empty.txt">> :> << >>)

\* a file that exists and is not valid UTF-8, and a path with no file
Paths == DOMAIN TextFiles \cup {<<"latin1.txt">>, <<"missing.txt">>}

\* the characters of the generated contents
Alphabet == {"a", "B", ".", "\n"}

\* every text of at most MaxLen characters of Alphabet
Generated == UNION {[1..n -> Alphabet] : n \in 0..MaxLen}

\* os.path.basename
basename(path) == path[Len(path)]

\* the clock counts ticks; strftime("%Y-%m-%d %H:%M:%S") keeps whole seconds
TicksPerSecond == 2

strftime(t) == t \div TicksPerSecond

\* top_n=10
DefaultTopN == 10

\* the top_n arguments of the calls on the files
TopNs == {DefaultTopN}

\* the top_n arguments tried on the generated contents
AllTopNs == 0..MaxTopN \cup {DefaultTopN}

(***************************************************************************)
(* The result record: a dict, modelled as a function on the keys present.   *)
(* Each operation yields the new results, its return value (or the          *)
(* exception it ends in) and the keys it stored.                            *)
(***************************************************************************)
EmptyDict == [k \in {} |-> 0]

Has(d, k) == k \in DOMAIN d

\* d[k] = v
Put(d, k, v) == [x \in DOMAIN d \cup {k} |-> IF x = k THEN v ELSE d[x]]

\* d.get(k, default)
Get(d, k, default) == IF Has(d, k) THEN d[k] ELSE default

\* what a call that is not save_results writes
NoReport == << >>

\* the record of the most recent call
Call(op, arg, ret, written) == [op |-> op, arg |-> arg, ret |-> ret, written |-> written]

(***************************************************************************)
(* load_file                                                                *)
(***************************************************************************)
\* open(file_path, 'r', encoding='utf-8') and file.read() succeed
Readable(path) == path \in DOMAIN TextFiles

\* a load_file that records the file name before it opens the file
load_file_names_first(content, results, path, t) ==
    IF Readable(path)
    THEN [content |-> TextFiles[path],
          results |-> Put(Put(results, "file_name", basename(path)),
                          "load_time", strftime(t)),
          ret |-> "True"]
    ELSE [content |-> content,
          results |-> Put(results, "file_name", basename(path)),
          ret |-> "False"]

\* the parser after load_file(path) at time t: content, results, return value
load_file(content, results, path, t) ==
    IF Readable(path)
    THEN [content |-> TextFiles[path],
          results |-> Put(Put(results, "file_name", basename(path)),
                          "load_time", strftime(t)),
          ret |-> "True"]
    ELSE [content |-> content, results |-> results, ret |-> "False"]

(***************************************************************************)
(* basic_statistics                                                         *)
(***************************************************************************)
\* a count that keeps the blank pieces
sentence_count_all(content) == Len(sentences(content))

\* len([s for s in sentences if s.strip()])
sentence_count(content) == Len(KeepNonBlank(sentences(content)))

\* the division of line 38 is by zero: sentences is a non-empty list (re.split
\* always returns at least one piece) and none of its pieces is non-blank
DividesByZero(content) == sentences(content) # << >> /\ sentence_count(content) = 0

\* the dict of lines 32-39
statistics(content) ==
    LET ws == words(content)
        count == sentence_count(content)
    IN  [char_count |-> Len(content),
         word_count |-> Len(ws),
         sentence_count |-> count,
         paragraph_count |-> Len(paragraphs(content)),
         avg_word_length |-> IF ws # << >> THEN TrueDiv(SumLen(ws), Len(ws)) ELSE Zero,
         avg_sentence_length |-> IF sentences(content) # << >>
                                 THEN TrueDiv(Len(ws), count)
                                 ELSE Zero]

basic_statistics(content, results) ==
    IF content = << >> THEN [results |-> results, ret |-> "False", stored |-> {}]
    ELSE IF DividesByZero(content)
         THEN [results |-> results, ret |-> "ZeroDivisionError", stored |-> {}]
         ELSE [results |-> Put(results, "statistics", statistics(content)),
               ret |-> "True", stored |-> {"statistics"}]

(***************************************************************************)
(* word_frequency                                                           *)
(***************************************************************************)
\* a table that counts the words as written, case kept
frequency_case_kept(content, top_n) ==
    LET word_counts == Counter(FindRuns(content, 1, WordChars))
    IN  [top_words |-> most_common(word_counts, top_n),
         unique_words |-> Len(word_counts)]

frequency(content, top_n) ==
    LET word_counts == Counter(words(content))
    IN  [top_words |-> most_common(word_counts, top_n),
         unique_words |-> Len(word_counts)]

\* a word_frequency that lacks the check for loaded content
word_frequency_unguarded(content, results, top_n) ==
    [results |-> Put(results, "word_frequency", frequency(content, top_n)),
     ret |-> "True", stored |-> {"word_frequency"}]

word_frequency(content, results, top_n) ==
    IF content = << >> THEN [results |-> results, ret |-> "False", stored |-> {}]
    ELSE [results |-> Put(results, "word_frequency", frequency(content, top_n)),
          ret |-> "True", stored |-> {"word_frequency"}]

(***************************************************************************)
(* find_pattern, extract_emails, extract_urls                               *)
(***************************************************************************)
pattern_matches(content, pattern) ==
    LET matches == FindAll(pattern, content, 1)
    IN  [pattern |-> pattern, matches |-> matches, count |-> Len(matches)]

find_pattern(content, results, pattern) ==
    IF content = << >> THEN [results |-> results, ret |-> "False", stored |-> {}]
    ELSE IF Invalid(pattern)
         THEN [results |-> results, ret |-> "re.error", stored |-> {}]
         ELSE [results |-> Put(results, "pattern_matches",
                               pattern_matches(content, pattern)),
               ret |-> "True", stored |-> {"pattern_matches"}]

extract_emails(content, results) == find_pattern(content, results, email_pattern)

extract_urls(content, results) == find_pattern(content, results, url_pattern)

\* a call ended in an exception
Raised(ret) == ret \in {"ZeroDivisionError", "re.error"}

(***************************************************************************)
(* analyze                                                                  *)
(***************************************************************************)
analyze(content, results, path, t) ==
    LET loaded == load_file(content, results, path, t)
        stats == basic_statistics(loaded.content, loaded.results)
        freq == word_frequency(loaded.content, stats.results, DefaultTopN)
        emails == extract_emails(loaded.content, freq.results)
        urls == extract_urls(loaded.content, emails.results)
    IN  IF loaded.ret = "False"
        THEN [content |-> loaded.content, results |-> loaded.results,
              ret |-> "None", stored |-> {}]
        ELSE IF Raised(stats.ret)
             THEN [content |-> loaded.content, results |-> stats.results,
                   ret |-> stats.ret, stored |-> stats.stored]
             ELSE [content |-> loaded.content, results |-> urls.results,
                   ret |-> "results",
                   stored |-> stats.stored \cup freq.stored \cup emails.stored
                              \cup urls.stored]

(***************************************************************************)
(* save_results: the lines written, each a fixed text and the value         *)
(* formatted into it.                                                       *)
(***************************************************************************)
Line(text, value) == [text |-> text, value |-> value]

\* str.endswith
EndsWith(s, suffix) ==
    /\ Len(suffix) <= Len(s)
    /\ SubSeq(s, Len(s) - Len(suffix) + 1, Len(s)) = suffix

\* sub in s
Contains(s, sub) ==
    \E i \in 1..(Len(s) - Len(sub) + 1) : SubSeq(s, i, i + Len(sub) - 1) = sub

\* seq[:n]
Take(seq, n) == SubSeq(seq, 1, IF n < Len(seq) THEN n ELSE Len(seq))

\* f"{q:.2f}" in hundredths: the nearest, an exact tie to the even one (a tie
\* needs a denominator that is a multiple of 8; below 40 such a quotient is
\* exact in binary, so the tie is real)
Fixed2(q) ==
    LET h == (q.num * 100) \div q.den
        r == (q.num * 100) % q.den
    IN  IF 2 * r > q.den \/ (2 * r = q.den /\ h % 2 = 1) THEN h + 1 ELSE h

\* [:5]
EmailsShown == 5

\* [:3]
UrlsShown == 3

\* one optional block: its header, the first matches, the elision line
Block(header, found, shown) ==
    LET count == Get(found, "count", 0)
        matches == Take(Get(found, "matches", << >>), shown)
    IN  <<Line(header, count)>>
        \o [k \in 1..Len(matches) |-> Line("- ", matches[k])]
        \o (IF count > shown THEN <<Line("- ... and N more", count - shown)>>
            ELSE << >>)

email_block(found) ==
    IF EndsWith(Get(found, "pattern", << >>), EmailSuffix)
    THEN Block("Email addresses found: ", found, EmailsShown) \o <<Line("", 0)>>
    ELSE << >>

\* a URL block that is left out when nothing was found
url_block_if_found(found) ==
    IF Contains(Get(found, "pattern", << >>), HttpWord) /\ Get(found, "count", 0) > 0
    THEN Block("URLs found: ", found, UrlsShown)
    ELSE << >>

url_block(found) ==
    IF Contains(Get(found, "pattern", << >>), HttpWord)
    THEN Block("URLs found: ", found, UrlsShown)
    ELSE << >>

\* what save_results writes for the result record
report(results) ==
    LET stats == Get(results, "statistics", EmptyDict)
        freq == Get(results, "word_frequency", EmptyDict)
        top == Get(freq, "top_words", << >>)
        found == Get(results, "pattern_matches", EmptyDict)
    IN  <<Line("Text File Analysis Report", 0),
          Line("========================================", 0),
          Line("File: ", Get(results, "file_name", "N/A")),
          Line("Analyzed at: ", Get(results, "load_time", "N/A")),
          Line("", 0),
          Line("Basic Statistics:", 0),
          Line("- Characters: ", Get(stats, "char_count", 0)),
          Line("- Words: ", Get(stats, "word_count", 0)),
          Line("- Sentences: ", Get(stats, "sentence_count", 0)),
          Line("- Paragraphs: ", Get(stats, "paragraph_count", 0)),
          Line("- Avg word length: ", Fixed2(Get(stats, "avg_word_length", Zero))),
          Line("- Avg sentence length: N words",
               Fixed2(Get(stats, "avg_sentence_length", Zero))),
          Line("", 0),
          Line("Word Frequency:", 0),
          Line("- Unique words: ", Get(freq, "unique_words", 0)),
          Line("- Top 10 words:", 0)>>
        \o [k \in 1..Len(top) |-> Line("  word: count", top[k])]
        \o <<Line("", 0)>>
        \o email_block(found)
        \o url_block(found)

\* open(output_file, 'w') fails: nothing is written, False is returned
save_results(results, writable) ==
    IF writable THEN [written |-> report(results), ret |-> "True"]
    ELSE [written |-> NoReport, ret |-> "False"]

(***************************************************************************)
(* The parser as a state machine: one action per method call.               *)
(***************************************************************************)
\* TextFileParser()
Init ==
    /\ file_content = << >>
    /\ analysis_results = EmptyDict
    /\ now = 0
    /\ last = Call("__init__", << >>, "None", NoReport)
    /\ computed_from = EmptyDict

\* the history of the keys a call stored
Stored(keys, content) ==
    [k \in DOMAIN computed_from \cup keys |->
        IF k \in keys THEN content ELSE computed_from[k]]

\* time passes between calls
Tick ==
    /\ now < MaxClock
    /\ now' = now + 1
    /\ UNCHANGED <<file_content, analysis_results, last, computed_from>>

LoadFile(path) ==
    LET r == load_file(file_content, analysis_results, path, now)
    IN  /\ file_content' = r.content
        /\ analysis_results' = r.results
        /\ last' = Call("load_file", path, r.ret, NoReport)
        /\ UNCHANGED <<now, computed_from>>

BasicStatistics ==
    LET r == basic_statistics(file_content, analysis_results)
    IN  /\ analysis_results' = r.results
        /\ last' = Call("basic_statistics", << >>, r.ret, NoReport)
        /\ computed_from' = Stored(r.stored, file_content)
        /\ UNCHANGED <<file_content, now>>

WordFrequency(top_n) ==
    LET r == word_frequency(file_content, analysis_results, top_n)
    IN  /\ analysis_results' = r.results
        /\ last' = Call("word_frequency", top_n, r.ret, NoReport)
        /\ computed_from' = Stored(r.stored, file_content)
        /\ UNCHANGED <<file_content, now>>

FindPattern(pattern) ==
    LET r == find_pattern(file_content, analysis_results, pattern)
    IN  /\ analysis_results' = r.results
        /\ last' = Call("find_pattern", pattern, r.ret, NoReport)
        /\ computed_from' = Stored(r.stored, file_content)
        /\ UNCHANGED <<file_content, now>>

ExtractEmails ==
    LET r == extract_emails(file_content, analysis_results)
    IN  /\ analysis_results' = r.results
        /\ last' = Call("extract_emails", << >>, r.ret, NoReport)
        /\ computed_from' = Stored(r.stored, file_content)
        /\ UNCHANGED <<file_content, now>>

ExtractUrls ==
    LET r == extract_urls(file_content, analysis_results)
    IN  /\ analysis_results' = r.results
        /\ last' = Call("extract_urls", << >>, r.ret, NoReport)
        /\ computed_from' = Stored(r.stored, file_content)
        /\ UNCHANGED <<file_content, now>>

Analyze(path) ==
    LET r == analyze(file_content, analysis_results, path, now)
    IN  /\ file_content' = r.content
        /\ analysis_results' = r.results
        /\ last' = Call("analyze", path, r.ret, NoReport)
        /\ computed_from' = Stored(r.stored, r.content)
        /\ UNCHANGED now

SaveResults(writable) ==
    LET r == save_results(analysis_results, writable)
    IN  /\ last' = Call("save_results", << >>, r.ret, r.written)
        /\ UNCHANGED <<file_content, analysis_results, now, computed_from>>

Next ==
    \/ Tick
    \/ \E path \in Paths : LoadFile(path)
    \/ BasicStatistics
    \/ \E top_n \in TopNs : WordFrequency(top_n)
    \/ \E pattern \in Patterns : FindPattern(pattern)
    \/ ExtractEmails
    \/ ExtractUrls
    \/ \E path \in Paths : Analyze(path)
    \/ \E writable \in BOOLEAN : SaveResults(writable)

Spec == Init /\ [][Next]_vars

(***************************************************************************)
(* The computing steps alone, on a parser that has just loaded any of the   *)
(* generated contents or of the files above.                                *)
(***************************************************************************)
InitLoaded ==
    /\ file_content \in Generated \cup {Scenario} \cup {TextFiles[p] : p \in DOMAIN TextFiles}
    /\ analysis_results = Put(Put(EmptyDict, "file_name", "input.txt"), "load_time", 0)
    /\ now = 0
    /\ last = Call("load_file", <<"input.txt">>, "True", NoReport)
    /\ computed_from = EmptyDict

NextLoaded ==
    \/ BasicStatistics
    \/ \E top_n \in AllTopNs : WordFrequency(top_n)

SpecLoaded == InitLoaded /\ [][NextLoaded]_vars

(***************************************************************************)
(* Properties.                                                              *)
(***************************************************************************)
ComputeOps ==
    {"basic_statistics", "word_frequency", "find_pattern", "extract_emails",
     "extract_urls"}

SearchOps == {"find_pattern", "extract_emails", "extract_urls"}

ComputedKeys == {"statistics", "word_frequency", "pattern_matches"}

\* the report holds a line of this text
HasLine(lines, text) == \E i \in 1..Len(lines) : lines[i].text = text

\* the call recorded in last wrote a report
Saved == last.op = "save_results" /\ last.ret = "True"

\* C1: while file_content is empty, each of basic_statistics, word_frequency,
\* find_pattern, extract_emails and extract_urls returns False and leaves
\* analysis_results as it was.
C1_NoContentNoChange ==
    [][(file_content = << >> /\ last'.op \in ComputeOps /\ now' = now)
         => (last'.ret = "False" /\ analysis_results' = analysis_results)]_vars

\* C1: a computing step was called after an empty file was loaded into a
\* parser that already held the statistics of another file.
C1_Witness ==
    /\ file_content = << >>
    /\ last.op \in ComputeOps
    /\ last.ret = "False"
    /\ Has(analysis_results, "file_name")
    /\ Has(analysis_results, "statistics")

\* C2: load_file returns True or False and never ends in an exception.  When
\* the file cannot be opened or decoded it returns False and leaves
\* file_content and analysis_results as they were; otherwise it returns True,
\* file_content is the text of the file, file_name is the last component of
\* the path, load_time is the time of the call in whole seconds, and every
\* other key of analysis_results is as it was.
C2_LoadFile ==
    [][(last'.op = "load_file" /\ now' = now) =>
         IF last'.arg \in DOMAIN TextFiles
         THEN /\ last'.ret = "True"
              /\ file_content' = TextFiles[last'.arg]
              /\ DOMAIN analysis_results' = DOMAIN analysis_results \cup {"file_name", "load_time"}
              /\ analysis_results'.file_name = last'.arg[Len(last'.arg)]
              /\ analysis_results'.load_time * TicksPerSecond <= now
              /\ now < (analysis_results'.load_time + 1) * TicksPerSecond
              /\ \A k \in DOMAIN analysis_results \ {"file_name", "load_time"} :
                     analysis_results'[k] = analysis_results[k]
         ELSE /\ last'.ret = "False"
              /\ file_content' = file_content
              /\ analysis_results' = analysis_results]_vars

\* C2: a load failed some seconds after an earlier load had succeeded, and
\* the content, file name and load time of the earlier load are still there.
C2_Witness ==
    /\ last.op = "load_file"
    /\ last.ret = "False"
    /\ file_content # << >>
    /\ Has(analysis_results, "file_name")
    /\ Has(analysis_results, "load_time")
    /\ (analysis_results.load_time + 1) * TicksPerSecond <= now

\* C3 as claimed: analyze returns None when the file cannot be loaded; when it
\* can, analyze returns the result record, and statistics, word_frequency and
\* pattern_matches are all present and computed from the content of that file.
C3_AnalyzeComplete ==
    last.op = "analyze" =>
        IF last.arg \notin DOMAIN TextFiles THEN last.ret = "None"
        ELSE /\ last.ret = "results"
             /\ \A k \in ComputedKeys :
                    /\ Has(analysis_results, k)
                    /\ Has(computed_from, k)
                    /\ computed_from[k] = TextFiles[last.arg]

\* the pattern a search call passes to re.findall
Searched(call) ==
    CASE call.op = "find_pattern" -> call.arg
      [] call.op = "extract_emails" -> email_pattern
      [] call.op = "extract_urls" -> url_pattern

\* C4 as claimed: after a successful search the slot holds the pattern, the
\* matches and the count of that search alone, and after analyze on a
\* non-empty file the stored pattern is the URL pattern.
C4_SingleSlot ==
    /\ (last.op \in SearchOps /\ last.ret = "True") =>
           /\ Has(analysis_results, "pattern_matches")
           /\ analysis_results.pattern_matches.pattern = Searched(last)
           /\ analysis_results.pattern_matches.count
                  = Len(analysis_results.pattern_matches.matches)
           /\ computed_from.pattern_matches = file_content
    /\ (last.op = "analyze" /\ last.arg \in DOMAIN TextFiles /\ TextFiles[last.arg] # << >>) =>
           /\ Has(analysis_results, "pattern_matches")
           /\ analysis_results.pattern_matches.pattern = url_pattern

\* the stored search found nothing
FoundNothing ==
    /\ Has(analysis_results, "pattern_matches")
    /\ analysis_results.pattern_matches.count = 0

\* C5 as claimed: a report of a result whose stored search found nothing has
\* neither an 'Email addresses found:' line nor a 'URLs found:' line.
C5_BlocksOmitted ==
    (Saved /\ FoundNothing) =>
        /\ ~HasLine(last.written, "Email addresses found: ")
        /\ ~HasLine(last.written, "URLs found: ")

\* C5 as amended: a report of a result whose stored search found nothing lists
\* no match and no '... and N more' line; the header of a block is still
\* written, with count 0, exactly when the stored pattern passes the test of
\* that block.
C5_EmptyBlocks ==
    (Saved /\ FoundNothing) =>
        LET pattern == analysis_results.pattern_matches.pattern
            written == last.written
        IN  /\ ~HasLine(written, "- ")
            /\ ~HasLine(written, "- ... and N more")
            /\ HasLine(written, "URLs found: ") <=> Contains(pattern, HttpWord)
            /\ HasLine(written, "Email addresses found: ") <=> EndsWith(pattern, EmailSuffix)
            /\ \A i \in 1..Len(written) :
                   written[i].text \in {"URLs found: ", "Email addresses found: "}
                       => written[i].value = 0

\* C5: a report was written after extract_urls found no URL, and it has the
\* line 'URLs found: 0'.
C5_Witness ==
    /\ Saved
    /\ FoundNothing
    /\ analysis_results.pattern_matches.pattern = url_pattern
    /\ HasLine(last.written, "URLs found: ")

\* the number of maximal runs of word characters
NumWords(c) ==
    Cardinality({i \in 1..Len(c) : c[i] \in WordChars /\ (i = 1 \/ c[i - 1] \notin WordChars)})

\* the number of segments between runs of '.', '!', '?' that are not blank:
\* the characters that are neither blank nor an end of sentence, each counted
\* once per segment (no end of sentence lies between two of one segment)
NumSentences(c) ==
    LET Text == {i \in 1..Len(c) : c[i] \notin Whitespace \cup SentenceEnd}
    IN  Cardinality({i \in Text :
            \A j \in Text : j < i => \E k \in (j + 1)..(i - 1) : c[k] \in SentenceEnd})

\* the number of segments between double newlines that are not blank
NumParagraphs(c) ==
    LET Text == {i \in 1..Len(c) : c[i] \notin Whitespace}
    IN  Cardinality({i \in Text :
            \A j \in Text : j < i =>
                \E k \in (j + 1)..(i - 2) : c[k] = "\n" /\ c[k + 1] = "\n"})

\* C6 as claimed: for the scenario text the statistics are 5 words, 2
\* sentences and 2 paragraphs.
C6_ScenarioCounts ==
    (Has(analysis_results, "statistics") /\ computed_from.statistics = Scenario) =>
        /\ analysis_results.statistics.word_count = 5
        /\ analysis_results.statistics.sentence_count = 2
        /\ analysis_results.statistics.paragraph_count = 2

\* C6 as amended: for the scenario text the statistics are 6 words, 3
\* sentences and 2 paragraphs, and "hello" with count 2 leads top_words; in
\* every statistics stored, word_count is the number of maximal runs of word
\* characters, sentence_count the number of non-blank segments between runs
\* of '.', '!', '?', and paragraph_count the number of non-blank segments
\* between double newlines.
C6_Counts ==
    /\ Has(analysis_results, "statistics") =>
           LET c == computed_from.statistics
               s == analysis_results.statistics
           IN  /\ s.word_count = NumWords(c)
               /\ s.sentence_count = NumSentences(c)
               /\ s.paragraph_count = NumParagraphs(c)
               /\ c = Scenario =>
                      s.word_count = 6 /\ s.sentence_count = 3 /\ s.paragraph_count = 2
    /\ (/\ Has(analysis_results, "word_frequency")
        /\ computed_from.word_frequency = Scenario
        /\ analysis_results.word_frequency.top_words # << >>) =>
           analysis_results.word_frequency.top_words[1] = <<<<"h", "e", "l", "l", "o">>, 2>>

\* C6: the statistics and a non-empty frequency table of the scenario text
\* are stored.
C6_Witness ==
    /\ Has(analysis_results, "statistics")
    /\ computed_from.statistics = Scenario
    /\ Has(analysis_results, "word_frequency")
    /\ analysis_results.word_frequency.top_words # << >>

\* the index of the first occurrence of w in ws
FirstAt(ws, w) == Min({i \in 1..Len(ws) : ws[i] = w})

\* C7: after word_frequency(top_n) on non-empty content, top_words has at
\* most min(top_n, unique_words) entries, each a lowercased word with its
\* number of occurrences, in descending order of count and, for equal counts,
\* in order of first occurrence; no word left out has a higher count than a
\* word included; unique_words is the number of distinct lowercased words.
C7_TopWords ==
    (last.op = "word_frequency" /\ last.ret = "True") =>
        LET ws == words(file_content)
            distinct == {ws[i] : i \in 1..Len(ws)}
            Count(w) == Cardinality({i \in 1..Len(ws) : ws[i] = w})
            top == analysis_results.word_frequency.top_words
            unique == analysis_results.word_frequency.unique_words
            included == {top[k][1] : k \in 1..Len(top)}
        IN  /\ file_content # << >>
            /\ unique = Cardinality(distinct)
            /\ Len(top) <= last.arg
            /\ Len(top) <= unique
            /\ \A k \in 1..Len(top) :
                   top[k][1] \in distinct /\ top[k][2] = Count(top[k][1])
            /\ \A j, k \in 1..Len(top) : j < k =>
                   \/ top[j][2] > top[k][2]
                   \/ /\ top[j][2] = top[k][2]
                      /\ FirstAt(ws, top[j][1]) < FirstAt(ws, top[k][1])
            /\ \A w \in distinct \ included : \A k \in 1..Len(top) : Count(w) <= top[k][2]

\* C7: word_frequency(2) ran on the scenario text, whose five distinct words
\* are cut to two, the second of them picked among words of equal count.
C7_Witness ==
    /\ last.op = "word_frequency"
    /\ last.ret = "True"
    /\ last.arg = 2
    /\ file_content = Scenario
    /\ Len(analysis_results.word_frequency.top_words) = 2
    /\ analysis_results.word_frequency.unique_words = 5

\* no word of the content occurs twice
AllDistinct(ws) == \A i, j \in 1..Len(ws) : ws[i] = ws[j] => i = j

\* C8 as claimed: whenever the record holds statistics and word_frequency,
\* unique_words <= word_count.
C8_UniqueAtMostCount ==
    (Has(analysis_results, "statistics") /\ Has(analysis_results, "word_frequency")) =>
        analysis_results.word_frequency.unique_words
            <= analysis_results.statistics.word_count

\* C8 as amended: whenever the record holds statistics and word_frequency
\* that were computed from the same content, unique_words <= word_count, with
\* equality exactly when no word of that content occurs more than once.
C8_SameContent ==
    (/\ Has(analysis_results, "statistics")
     /\ Has(analysis_results, "word_frequency")
     /\ computed_from.statistics = computed_from.word_frequency) =>
        LET unique == analysis_results.word_frequency.unique_words
            count == analysis_results.statistics.word_count
        IN  /\ unique <= count
            /\ unique = count <=> AllDistinct(words(computed_from.statistics))

\* C8: the record holds statistics and word_frequency of one file with a
\* repeated word while another file is loaded.
C8_Witness ==
    /\ Has(analysis_results, "statistics")
    /\ Has(analysis_results, "word_frequency")
    /\ computed_from.statistics = computed_from.word_frequency
    /\ file_content # computed_from.statistics
    /\ file_content # << >>
    /\ analysis_results.word_frequency.unique_words
           < analysis_results.statistics.word_count

\* C9 as claimed: on non-empty content without a non-blank sentence segment,
\* basic_statistics returns True and stores sentence_count = 0 and
\* avg_sentence_length = 0, and avg_word_length = 0 as there are no words.
C9_NoSentences ==
    (/\ last.op = "basic_statistics"
     /\ file_content # << >>
     /\ \A i \in 1..Len(file_content) : file_content[i] \in Whitespace \cup SentenceEnd) =>
        /\ last.ret = "True"
        /\ Has(analysis_results, "statistics")
        /\ computed_from.statistics = file_content
        /\ analysis_results.statistics.sentence_count = 0
        /\ analysis_results.statistics.avg_sentence_length.num = 0
        /\ analysis_results.statistics.avg_word_length.num = 0

\* C10 as claimed: a report written while the stored search is that of
\* extract_emails has the line 'Email addresses found: <count>' and no
\* 'URLs found:' line.
C10_EmailBlock ==
    (/\ Saved
     /\ Has(analysis_results, "pattern_matches")
     /\ analysis_results.pattern_matches.pattern = email_pattern) =>
        /\ \E i \in 1..Len(last.written) :
               /\ last.written[i].text = "Email addresses found: "
               /\ last.written[i].value = analysis_results.pattern_matches.count
        /\ ~HasLine(last.written, "URLs found: ")

====
